---- MODULE Spec2Model ----
(***************************************************************************)
(* A model of edge-tts-universal (React Native build):                     *)
(*   - src/src/drm.ts          DRM: clock skew and Sec-MS-GEC token        *)
(*   - src/unnamed/part_001    voices.ts: listVoices and its 403 retry     *)
(*   - src/unnamed/part_002    communicate.ts: Communicate.stream/_stream  *)
(*                                                                         *)
(* Four specifications share the module.  Spec is one Communicate          *)
(* instance with its stream() generators, the WebSocket of each            *)
(* sub-session and the consumer.  SpecLive is Spec with a consumer that    *)
(* keeps pulling, under fairness of the message loop and its timer.        *)
(* SpecVoices is the process-wide DRM state with listVoices calls running  *)
(* against it.  SpecFrames is the decoding and handling of one frame.      *)
(*                                                                         *)
(* Numbers.  JavaScript numbers are modelled as records [nan, v]: v is an  *)
(* integer count of milliseconds (Date.now() is an integer number of ms,   *)
(* and Date.getTime() is one too), nan marks NaN.  Arithmetic on them is   *)
(* exact; the rounding of IEEE doubles is not modelled.                    *)
(***************************************************************************)
EXTENDS Integers, Sequences, FiniteSets, TLC

\* ------------------------------------------------------------------ bounds

\* listVoices calls that may run against the one DRM state.
MaxCalls == 2
\* How many times the local clock advances.
MaxTicks == 4
\* Distinct server dates a response may carry (in steps of ServerStepMs).
MaxServerDates == 2

\* One step of the local clock: 100.5 s, so that successive readings fall in
\* the same 300 s bucket, then in the next one, and carry a fraction of a second.
TickMs == 100 * 1000 + 500
\* Server dates have whole seconds (RFC 2616); they are 299 s apart.
ServerStepMs == 299 * 1000

ClockValues == {k * TickMs : k \in 0..MaxTicks}
ServerDates == {k * ServerStepMs : k \in 0..MaxServerDates}

\* ------------------------------------------------------------ JS numbers

NaN == [nan |-> TRUE, v |-> 0]
Num(v) == [nan |-> FALSE, v |-> v]
IsFinite(a) == ~a.nan
\* a + b and a - b: NaN if either operand is NaN.
Add(a, b) == IF a.nan \/ b.nan THEN NaN ELSE Num(a.v + b.v)
Sub(a, b) == IF a.nan \/ b.nan THEN NaN ELSE Num(a.v - b.v)
\* a === b on numbers: NaN equals nothing, itself included.
NumEq(a, b) == ~a.nan /\ ~b.nan /\ a.v = b.v

\* ------------------------------------------------------------------- DRM

\* WIN_EPOCH = 11644473600 s = 38814912 * 300 s.  The constant is kept as a
\* count of 300 s buckets: a tick count is a pair [q, r] that stands for
\* q * 300 s + r ms, with 0 <= r < 300000.
WIN_EPOCH_DIV_300 == 38814912
BucketSeconds == 300
BucketMs == BucketSeconds * 1000

VARIABLES
    now,               \* Date.now(), in ms
    clockSkewSeconds,  \* DRM.clockSkewSeconds, a JS number (ms units)
    lastAdj,           \* the last handleClientResponseError call, for the claims
    call               \* the listVoices calls

drmVars == <<now, clockSkewSeconds, lastAdj, call>>

VARIABLES
    streamWasCalled,     \* state.streamWasCalled
    offsetCompensation,  \* state.offsetCompensation
    lastDurationOffset,  \* state.lastDurationOffset
    textsPos,            \* segments already taken from this.texts
    gen,                 \* each stream() generator: its status and the error it threw
    active,              \* the generator whose body runs (0: none yet)
    pulling,             \* a next() of the active generator has not reached a yield yet
    awaiting,            \* the message loop is in its await: resolveMessage is pending
    ws,                  \* the WebSocket of the current sub-session
    messageQueue,        \* _stream's messageQueue
    audioWasReceived,    \* _stream's audioWasReceived
    pendingBlobs,        \* Blob frames whose arrayBuffer() has not settled
    nEnq,                \* items pushed on messageQueue so far (numbers the items)
    framesLeft,          \* frames and error events the transport may still deliver
    yielded,             \* the events the caller has received, in order
    hist                 \* what happened in each segment's sub-session, for the claims

streamVars ==
    <<streamWasCalled, offsetCompensation, lastDurationOffset, textsPos, gen,
      active, pulling, awaiting, ws, messageQueue, audioWasReceived,
      pendingBlobs, nEnq, framesLeft, yielded, hist>>

VARIABLES
    input,   \* one frame given to a function of handleMessage, and the state it meets
    output   \* what the function returned, threw, pushed and left in the state

frameVars == <<input, output>>

\* DRM.getUnixTimestamp() read when the local clock shows t and the skew is s.
getUnixTimestamp(t, s) == Add(Num(t), s)

\* An adjustment that overwrites the skew with the difference it is given.
adjClockSkewSecondsOverwrites(s, skewSeconds) == skewSeconds

\* DRM.adjClockSkewSeconds(skewSeconds): the new value of clockSkewSeconds.
adjClockSkewSeconds(s, skewSeconds) == Add(s, skewSeconds)

\* A date header: absent (null, undefined or ""), a string new Date() cannot
\* parse, or a date.
NoHeader == [kind |-> "absent", ms |-> 0]
BadHeader == [kind |-> "unparseable", ms |-> 0]
DateHeader(ms) == [kind |-> "date", ms |-> ms]
Headers == {NoHeader, BadHeader} \cup {DateHeader(ms) : ms \in ServerDates}

\* DRM.parseRfc2616Date(date): new Date(date).getTime() / 1000.  new Date() does
\* not throw on a string it cannot parse: getTime() is then NaN, so the catch
\* that returns null is never taken.
parseRfc2616Date(h) == IF h.kind = "date" THEN Num(h.ms) ELSE NaN

\* The outcome of DRM.handleClientResponseError on a response whose date header
\* is h, at local time t with skew s: whether it threw, and the skew afterwards.
handleClientResponseError(h, t, s) ==
    IF h.kind = "absent"
    THEN [threw |-> TRUE, skew |-> s]
    ELSE LET serverDateParsed == parseRfc2616Date(h)
             clientDate == getUnixTimestamp(t, s)
         IN  [threw |-> FALSE,
              skew |-> adjClockSkewSeconds(s, Sub(serverDateParsed, clientDate))]

\* ticks += WIN_EPOCH, for a finite timestamp ts (ms) with ts + WIN_EPOCH >= 0.
AddWinEpoch(ts) ==
    [q |-> WIN_EPOCH_DIV_300 + (ts \div BucketMs), r |-> ts % BucketMs]

\* ticks % 300, in ms.
Mod300(ticks) == ticks.r

\* ticks -= ticks % 300
Truncate300(ticks) == [q |-> ticks.q, r |-> ticks.r - Mod300(ticks)]

\* The string generateSecMsGec hashes, without the trusted client token that
\* follows it: ticks.toFixed(0) after ticks *= S_TO_NS / 100.  The digits are
\* those of q * 3000000000 + r * 10000; the pair [q, r] stands for them, and
\* "NaN" is what toFixed gives for NaN.
strToHash(t, s) ==
    LET ts == getUnixTimestamp(t, s)
    IN  IF ts.nan
        THEN [nan |-> TRUE, q |-> 0, r |-> 0]
        ELSE LET ticks == Truncate300(AddWinEpoch(ts.v))
             IN  [nan |-> FALSE, q |-> ticks.q, r |-> ticks.r]

\* ------------------------------------------------- voices.ts: listVoices

Calls == 1..MaxCalls

\* What fetch gave: an HTTP status with the response's date header, or no
\* response at all (status 0: the fetch itself failed).
Responses ==
    {[status |-> st, date |-> NoHeader] : st \in {0, 200, 500}}
        \cup {[status |-> 403, date |-> h] : h \in Headers}

\* A listVoices call: where it is, the requests it sent, the skew corrections it
\* made, what its requests were answered, and whether the token of its second
\* request was the one of the corrected skew (freshToken).
IdleCall ==
    [pc |-> "idle", requests |-> 0, adjusts |-> 0, status1 |-> 0,
     status2 |-> 0, date1 |-> NoHeader, freshToken |-> FALSE, result |-> "none"]

\* The last handleClientResponseError call: the date header and the local time
\* it ran with, whether it threw, whether it changed the skew.  The skew it left
\* is clockSkewSeconds: nothing else writes it.
NoAdj ==
    [called |-> FALSE, date |-> NoHeader, now |-> 0, changed |-> FALSE,
     threw |-> FALSE]

\* _listVoices: what the caller of _listVoices sees for a response r.  Every
\* failure is a FetchError; only a response that is not ok carries a status.
listVoicesOutcome(r) == IF r.status = 200 THEN "ok" ELSE "FetchError"

\* listVoices, the catch clause: e instanceof FetchError && e.response?.status === 403
isRetryable(r) == r.status = 403

\* A catch clause that is entered again when the second attempt is refused.
afterSecondAttemptRetries(r) == IF r.status = 403 THEN "req1" ELSE "done"

\* listVoices, line 80: the outcome of the second _listVoices is the outcome of
\* the call; where the call goes after it.
afterSecondAttempt(r) == "done"

\* The token of the second _listVoices, generated at local time t: it reads the
\* skew handleClientResponseError left (after), not the one before it.
retryToken(t, before, after) == strToHash(t, after)

InitVoices ==
    /\ now = 0
    /\ clockSkewSeconds = Num(0)
    /\ lastAdj = NoAdj
    /\ call = [c \in Calls |-> IdleCall]

\* The local clock advances.
Tick ==
    /\ now + TickMs \in ClockValues
    /\ now' = now + TickMs
    /\ UNCHANGED <<clockSkewSeconds, lastAdj, call, streamVars, frameVars>>

\* listVoices(): the first _listVoices generates its token and sends the request.
CallListVoices(c) ==
    /\ call[c].pc = "idle"
    /\ call' = [call EXCEPT ![c].pc = "req1",
                            ![c].requests = 1]
    /\ UNCHANGED <<now, clockSkewSeconds, lastAdj, streamVars, frameVars>>

\* The first request's response arrives.  On a 403 the catch clause corrects the
\* skew from the response and calls _listVoices again, which reads the clock for
\* its token before anything else can run.
FirstResponse(c, r) ==
    /\ call[c].pc = "req1"
    /\ IF ~isRetryable(r)
       THEN /\ call' = [call EXCEPT ![c].pc = "done",
                                    ![c].status1 = r.status,
                                    ![c].result = listVoicesOutcome(r)]
            /\ UNCHANGED <<clockSkewSeconds, lastAdj>>
       ELSE LET h == handleClientResponseError(r.date, now, clockSkewSeconds)
            IN  /\ lastAdj' = [called |-> TRUE, date |-> r.date, now |-> now,
                               changed |-> h.skew # clockSkewSeconds,
                               threw |-> h.threw]
                /\ clockSkewSeconds' = h.skew
                /\ IF h.threw
                   THEN call' = [call EXCEPT ![c].pc = "done",
                                             ![c].status1 = r.status,
                                             ![c].result = "SkewAdjustmentError"]
                   ELSE call' = [call EXCEPT ![c].pc = "req2",
                                             ![c].status1 = r.status,
                                             ![c].date1 = r.date,
                                             ![c].adjusts = @ + 1,
                                             ![c].requests = @ + 1,
                                             ![c].freshToken =
                                                 retryToken(now, clockSkewSeconds, h.skew)
                                                     = strToHash(now, h.skew)]
    /\ UNCHANGED <<now, streamVars, frameVars>>

\* The second request's response arrives: its outcome is the call's outcome.
SecondResponse(c, r) ==
    /\ call[c].pc = "req2"
    /\ call' = [call EXCEPT ![c].pc = afterSecondAttempt(r),
                            ![c].status2 = r.status,
                            ![c].result = listVoicesOutcome(r)]
    /\ UNCHANGED <<now, clockSkewSeconds, lastAdj, streamVars, frameVars>>

\* ------------------------------------------- communicate.ts: Communicate

\* Segments splitTextByByteLength cuts the text into (this.texts yields them).
NumSegments == 2
\* Frames and error events the transport delivers over the whole stream.
MaxFrames == 4
\* Raw offsets of the word boundaries the service reports: 0..MaxOffset.
MaxOffset == 1
\* Their durations: 1..MaxDuration.
MaxDuration == 1
\* Blob frames whose arrayBuffer() is still being read.
MaxPendingBlobs == 1
\* stream() generators made from the one Communicate instance.
MaxInvocations == 2
\* Frames and error events the transport delivers where progress is checked.
MaxLiveFrames == 3

Segments == 1..NumSegments
Invocations == 1..MaxInvocations

vars == <<drmVars, streamVars, frameVars>>

\* --- frames

\* One entry of the Metadata array of an audio.metadata frame.
WordBoundary(o, d) == [Type |-> "WordBoundary", Offset |-> o, Duration |-> d]
SessionEnd == [Type |-> "SessionEnd", Offset |-> 0, Duration |-> 0]
OtherEntry == [Type |-> "SentenceBoundary", Offset |-> 0, Duration |-> 0]
Entries ==
    {WordBoundary(o, d) : o \in 0..MaxOffset, d \in 1..MaxDuration}
        \cup {SessionEnd, OtherEntry}

\* The body of an audio.metadata frame: text JSON.parse rejects or that has no
\* Metadata array (json FALSE), or the Metadata array.
BadJson == [json |-> FALSE, Metadata |-> <<>>]
Body(entries) == [json |-> TRUE, Metadata |-> entries]
MetadataBodies == {BadJson, Body(<<>>)} \cup {Body(<<e>>) : e \in Entries}

\* A binary frame as processBinaryData sees it: shorter than 2 bytes or not, its
\* Path and Content-Type headers, and whether bytes follow the headers.
BinaryFrame(short, path, ctype, hasData) ==
    [short |-> short, Path |-> path, ContentType |-> ctype, hasData |-> hasData]
BinaryFrames ==
    {BinaryFrame(TRUE, "", "", FALSE), BinaryFrame(FALSE, "other", "audio/mpeg", TRUE)}
        \cup {BinaryFrame(FALSE, "audio", ct, d) :
                 ct \in {"audio/mpeg", "other"}, d \in BOOLEAN}

\* --- messageQueue items

AudioItem == [kind |-> "audio", name |-> "", offset |-> 0, duration |-> 0, raw |-> 0]
WordBoundaryItem(o, d, raw) ==
    [kind |-> "WordBoundary", name |-> "", offset |-> o, duration |-> d, raw |-> raw]
ErrorItem(name) ==
    [kind |-> "error", name |-> name, offset |-> 0, duration |-> 0, raw |-> 0]
CloseItem == [kind |-> "close", name |-> "", offset |-> 0, duration |-> 0, raw |-> 0]
NoItem == [kind |-> "none", name |-> "", offset |-> 0, duration |-> 0, raw |-> 0]

\* Communicate.parseMetadata(data) with state.offsetCompensation = comp: the
\* chunk it returns or the error it throws, as a messageQueue item.  The loop
\* returns at the first WordBoundary entry, skips SessionEnd entries and throws
\* on any other; an array it runs through to the end throws too.
RECURSIVE parseEntries(_, _)
parseEntries(entries, comp) ==
    IF entries = <<>>
    THEN ErrorItem("UnexpectedResponse")
    ELSE LET metaObj == Head(entries)
         IN  IF metaObj.Type = "WordBoundary"
             THEN WordBoundaryItem(metaObj.Offset + comp, metaObj.Duration,
                                   metaObj.Offset)
             ELSE IF metaObj.Type = "SessionEnd"
             THEN parseEntries(Tail(entries), comp)
             ELSE ErrorItem("UnknownResponse")

parseMetadata(body, comp) ==
    IF ~body.json THEN ErrorItem("SyntaxError") ELSE parseEntries(body.Metadata, comp)

\* A processBinaryData that takes every frame without audio data for a fault.
processBinaryDataStrict(b) ==
    IF b.short \/ b.Path # "audio" \/ b.ContentType # "audio/mpeg" \/ ~b.hasData
    THEN ErrorItem("UnexpectedResponse")
    ELSE AudioItem

\* processBinaryData(bufferData): the item it pushes, or NoItem.
processBinaryData(b) ==
    IF b.short THEN ErrorItem("UnexpectedResponse")
    ELSE IF b.Path # "audio" THEN ErrorItem("UnexpectedResponse")
    ELSE IF b.ContentType # "audio/mpeg"
    THEN (IF b.hasData THEN ErrorItem("UnexpectedResponse") ELSE NoItem)
    ELSE IF ~b.hasData THEN ErrorItem("UnexpectedResponse")
    ELSE AudioItem

\* A binary frame that processBinaryData turns into an audio chunk.
IsAudioFrame(b) == processBinaryData(b).kind = "audio"

\* messageQueue.push(item).  For the claims every item carries its segment, its
\* place in the order of pushes of its sub-session, whether the sub-session had
\* handled a turn.end by then, and whether it is pushed behind the event of a
\* frame the transport delivered after its own frame (late).
Stamp(item, seg, n, te, late) ==
    [kind |-> item.kind, name |-> item.name, offset |-> item.offset,
     duration |-> item.duration, raw |-> item.raw, seg |-> seg, idx |-> n,
     afterTurnEnd |-> te, late |-> late]

\* An item the caller is to receive.
IsEvent(item) == item.kind \in {"audio", "WordBoundary"}

\* A queue that hands out its newest entry first.
shiftNewest(q) == [item |-> q[Len(q)], rest |-> SubSeq(q, 1, Len(q) - 1)]

\* messageQueue.shift(): the item taken and the queue left.
shift(q) == [item |-> Head(q), rest |-> Tail(q)]

\* A message loop that takes every close for the normal end of the segment.
onCloseItemAlwaysBreak(received) == "break"

\* The message loop on a 'close' item: throw NoAudioReceived, or break.
onCloseItem(received) == IF ~received THEN "NoAudioReceived" ELSE "break"

\* A turn.end that leaves the compensation where it was.
onTurnEndKeepsCompensation(comp, last) == comp

\* The turn.end branch of handleMessage: the new state.offsetCompensation.
onTurnEnd(comp, last) == last

\* --- state

NoSegment ==
    [created |-> FALSE, opened |-> FALSE, closeRequested |-> FALSE,
     closed |-> FALSE, turnEnd |-> FALSE, turnEndBeforeAudio |-> FALSE,
     audioDelivered |-> FALSE, lastFrameTurnEnd |-> FALSE, lastWordBoundary |-> -1,
     lastRaw |-> -1, rawOrdered |-> TRUE, errorQueued |-> FALSE,
     errorEvent |-> FALSE, outcome |-> "none", fault |-> "none", faultIdx |-> 0]

NewGenerator == [status |-> "none", error |-> "none"]

\* A Communicate just constructed, and a transport that will deliver at most
\* frames frames.
InitStreamWith(frames) ==
    /\ streamWasCalled = FALSE
    /\ offsetCompensation = 0
    /\ lastDurationOffset = 0
    /\ textsPos = 0
    /\ gen = [i \in Invocations |-> NewGenerator]
    /\ active = 0
    /\ pulling = FALSE
    /\ awaiting = FALSE
    /\ ws = "none"
    /\ messageQueue = <<>>
    /\ audioWasReceived = FALSE
    /\ pendingBlobs = <<>>
    /\ nEnq = 0
    /\ framesLeft = frames
    /\ yielded = <<>>
    /\ hist = [k \in Segments |-> NoSegment]

InitStream == InitStreamWith(MaxFrames)

Running == active # 0 /\ gen[active].status = "running"

\* The transport delivers to the handlers _stream installed: the socket has
\* opened and has not reported its close.  A close the engine requested does not
\* stop the frames already on their way (React Native dispatches them in the
\* CLOSING state as well).
Connected == Running /\ ws \in {"open", "closing"}

\* messageQueue after push(item); NoItem pushes nothing.
PushedAs(item, late) ==
    IF item.kind = "none" THEN messageQueue
    ELSE Append(messageQueue,
                Stamp(item, textsPos, nEnq + 1, hist[textsPos].turnEnd, late))

Pushed(item) == PushedAs(item, FALSE)

\* A Blob frame whose arrayBuffer() is being read.  overtaken: the event of a
\* frame delivered after it has been pushed in the meantime.
PendingBlob(b) == [frame |-> b, overtaken |-> FALSE]

\* The pending Blobs once item was pushed: an event overtakes each of them.
Overtake(blobs, item) ==
    IF IsEvent(item)
    THEN [n \in DOMAIN blobs |-> [blobs[n] EXCEPT !.overtaken = TRUE]]
    ELSE blobs

Counted(item) == IF item.kind = "none" THEN nEnq ELSE nEnq + 1

\* The segment's record after a frame was handled that pushed item.
Noted(h, item, isTurnEnd) ==
    [h EXCEPT !.errorQueued = @ \/ item.kind = "error",
              !.lastFrameTurnEnd = isTurnEnd,
              !.lastWordBoundary =
                  IF item.kind = "WordBoundary" THEN item.offset + item.duration ELSE @,
              !.lastRaw = IF item.kind = "WordBoundary" THEN item.raw ELSE @,
              !.rawOrdered = @ /\ (item.kind = "WordBoundary" => item.raw >= h.lastRaw)]

\* A stream() that begins with the last segment of this.texts.
BeginSubSessionAtLast(k) ==
    /\ textsPos' = NumSegments
    /\ ws' = "connecting"
    /\ messageQueue' = <<>>
    /\ audioWasReceived' = FALSE
    /\ pendingBlobs' = <<>>
    /\ nEnq' = 0
    /\ hist' = [hist EXCEPT ![NumSegments].created = TRUE,
                            ![NumSegments].outcome = "running"]

\* _stream() up to "await new Promise(... onopen ...)" for the next segment of
\* this.texts: the token, the socket, its handlers, an empty messageQueue.
BeginSubSession(k) ==
    /\ textsPos' = k
    /\ ws' = "connecting"
    /\ messageQueue' = <<>>
    /\ audioWasReceived' = FALSE
    /\ pendingBlobs' = <<>>
    /\ nEnq' = 0
    /\ hist' = [hist EXCEPT ![k].created = TRUE, ![k].outcome = "running"]

\* if (resolveMessage) resolveMessage(), with queue the messageQueue the handler
\* leaves: whether the loop is in its await afterwards.  A loop that was woken
\* looks at the queue; finding it empty it awaits again.
resolveMessage(queue) == awaiting /\ queue = <<>>

\* --- stream(): the generators

\* communicate.stream() is called: an async generator object; no line of the
\* body runs before its first next().
Invoke(i) ==
    /\ gen[i].status = "none"
    /\ IF i = 1 THEN TRUE ELSE gen[i - 1].status # "none"
    /\ gen' = [gen EXCEPT ![i].status = "suspendedStart"]
    /\ UNCHANGED awaiting
    /\ UNCHANGED frameVars
    /\ UNCHANGED <<drmVars, streamWasCalled, offsetCompensation, lastDurationOffset,
                   textsPos, active, pulling, ws, messageQueue, audioWasReceived,
                   pendingBlobs, nEnq, framesLeft, yielded, hist>>

\* The first next() of a generator runs the guard of stream(); past it, the
\* first segment's sub-session begins.
FirstNext(i) ==
    /\ gen[i].status = "suspendedStart"
    /\ IF streamWasCalled
       THEN /\ gen' = [gen EXCEPT ![i] = [status |-> "threw", error |-> "MisuseError"]]
            /\ UNCHANGED <<streamWasCalled, active, pulling, textsPos, ws, messageQueue,
                           audioWasReceived, pendingBlobs, nEnq, hist>>
       ELSE /\ streamWasCalled' = TRUE
            /\ gen' = [gen EXCEPT ![i].status = "running"]
            /\ active' = i
            /\ pulling' = TRUE
            /\ BeginSubSession(1)
    /\ UNCHANGED awaiting
    /\ UNCHANGED frameVars
    /\ UNCHANGED <<drmVars, offsetCompensation, lastDurationOffset, framesLeft, yielded>>

\* The consumer abandons the iteration (break, or return()): both generators
\* finish at their yield.  _stream has no finally: the socket is left as it is.
ConsumerReturn ==
    /\ Running /\ ~pulling
    /\ gen' = [gen EXCEPT ![active].status = "returned"]
    /\ hist' = [hist EXCEPT ![textsPos].outcome = "abandoned"]
    /\ UNCHANGED awaiting
    /\ UNCHANGED frameVars
    /\ UNCHANGED <<drmVars, streamWasCalled, offsetCompensation, lastDurationOffset,
                   textsPos, active, pulling, ws, messageQueue, audioWasReceived,
                   pendingBlobs, nEnq, framesLeft, yielded>>

\* --- the transport

\* onopen: the promise _stream awaits resolves; it sends speech.config and the
\* SSML and enters the message loop.
Open ==
    /\ Running /\ ws = "connecting"
    /\ ws' = "open"
    /\ hist' = [hist EXCEPT ![textsPos].opened = TRUE]
    /\ awaiting' = TRUE
    /\ UNCHANGED frameVars
    /\ UNCHANGED <<drmVars, streamWasCalled, offsetCompensation, lastDurationOffset,
                   textsPos, gen, active, pulling, messageQueue, audioWasReceived,
                   pendingBlobs, nEnq, framesLeft, yielded>>

\* The connection fails: onerror (by now onError) rejects the promise and the
\* error event propagates out of _stream and stream.
ConnectError ==
    /\ Running /\ ws = "connecting"
    /\ ws' = "closed"
    /\ gen' = [gen EXCEPT ![active] = [status |-> "threw", error |-> "ConnectError"]]
    /\ pulling' = FALSE
    /\ hist' = [hist EXCEPT ![textsPos].outcome = "threw",
                            ![textsPos].fault = "ConnectError"]
    /\ UNCHANGED awaiting
    /\ UNCHANGED frameVars
    /\ UNCHANGED <<drmVars, streamWasCalled, offsetCompensation, lastDurationOffset,
                   textsPos, active, messageQueue, audioWasReceived, pendingBlobs,
                   nEnq, framesLeft, yielded>>

\* An audio.metadata branch that stores the end of the word boundary as the
\* service reported it, without the compensation.
onAudioMetadataRaw(body, comp, last) ==
    LET item == parseMetadata(body, comp)
    IN  [item |-> item,
         last |-> IF item.kind = "WordBoundary" THEN item.raw + item.duration
                  ELSE last]

\* The audio.metadata branch of handleMessage with state.offsetCompensation =
\* comp and state.lastDurationOffset = last: the item it pushes (the chunk, or
\* the error caught) and state.lastDurationOffset afterwards.
onAudioMetadata(body, comp, last) ==
    LET item == parseMetadata(body, comp)
    IN  [item |-> item,
         last |-> IF item.kind = "WordBoundary" THEN item.offset + item.duration
                  ELSE last]

\* handleMessage, a text frame with Path audio.metadata.
TextMetadata(body) ==
    /\ Connected /\ framesLeft > 0
    /\ LET item == onAudioMetadata(body, offsetCompensation, lastDurationOffset).item
       IN  /\ lastDurationOffset' =
                  onAudioMetadata(body, offsetCompensation, lastDurationOffset).last
           /\ messageQueue' = Pushed(item)
           /\ nEnq' = Counted(item)
           /\ hist' = [hist EXCEPT ![textsPos] = Noted(@, item, FALSE)]
           /\ pendingBlobs' = Overtake(pendingBlobs, item)
    /\ framesLeft' = framesLeft - 1
    /\ awaiting' = resolveMessage(messageQueue')
    /\ UNCHANGED frameVars
    /\ UNCHANGED <<drmVars, streamWasCalled, offsetCompensation, textsPos, gen,
                   active, pulling, ws, audioWasReceived, yielded>>

\* handleMessage, a text frame with Path turn.end.
TextTurnEnd ==
    /\ Connected /\ framesLeft > 0
    /\ offsetCompensation' = onTurnEnd(offsetCompensation, lastDurationOffset)
    /\ ws' = "closing"
    /\ hist' = [hist EXCEPT ![textsPos].turnEnd = TRUE,
                            ![textsPos].turnEndBeforeAudio =
                                @ \/ ~hist[textsPos].audioDelivered,
                            ![textsPos].closeRequested = TRUE,
                            ![textsPos].lastFrameTurnEnd = TRUE]
    /\ framesLeft' = framesLeft - 1
    /\ awaiting' = resolveMessage(messageQueue)
    /\ UNCHANGED frameVars
    /\ UNCHANGED <<drmVars, streamWasCalled, lastDurationOffset, textsPos, gen,
                   active, pulling, messageQueue, audioWasReceived, pendingBlobs,
                   nEnq, yielded>>

\* handleMessage, a text frame with Path response or turn.start: nothing.
TextIgnored(path) ==
    /\ Connected /\ framesLeft > 0
    /\ path \in {"response", "turn.start"}
    /\ hist' = [hist EXCEPT ![textsPos].lastFrameTurnEnd = FALSE]
    /\ framesLeft' = framesLeft - 1
    /\ awaiting' = resolveMessage(messageQueue)
    /\ UNCHANGED frameVars
    /\ UNCHANGED <<drmVars, streamWasCalled, offsetCompensation, lastDurationOffset,
                   textsPos, gen, active, pulling, ws, messageQueue,
                   audioWasReceived, pendingBlobs, nEnq, yielded>>

\* handleMessage, a text frame with any other Path, or with none.
TextUnknownPath ==
    /\ Connected /\ framesLeft > 0
    /\ LET item == ErrorItem("UnknownResponse")
       IN  /\ messageQueue' = Pushed(item)
           /\ nEnq' = Counted(item)
           /\ hist' = [hist EXCEPT ![textsPos] = Noted(@, item, FALSE)]
    /\ framesLeft' = framesLeft - 1
    /\ awaiting' = resolveMessage(messageQueue')
    /\ UNCHANGED frameVars
    /\ UNCHANGED <<drmVars, streamWasCalled, offsetCompensation, lastDurationOffset,
                   textsPos, gen, active, pulling, ws, audioWasReceived,
                   pendingBlobs, yielded>>

\* handleMessage, a binary frame given as ArrayBuffer or Uint8Array.
Binary(b) ==
    /\ Connected /\ framesLeft > 0
    /\ LET item == processBinaryData(b)
       IN  /\ messageQueue' = Pushed(item)
           /\ nEnq' = Counted(item)
           /\ hist' = [hist EXCEPT ![textsPos] =
                          [Noted(@, item, FALSE) EXCEPT
                              !.audioDelivered = @ \/ IsAudioFrame(b)]]
           /\ pendingBlobs' = Overtake(pendingBlobs, item)
    /\ framesLeft' = framesLeft - 1
    /\ awaiting' = resolveMessage(messageQueue')
    /\ UNCHANGED frameVars
    /\ UNCHANGED <<drmVars, streamWasCalled, offsetCompensation, lastDurationOffset,
                   textsPos, gen, active, pulling, ws, audioWasReceived, yielded>>

\* handleMessage, a binary frame given as a Blob: arrayBuffer() is started and
\* handleMessage returns.
BinaryBlob(b) ==
    /\ Connected /\ framesLeft > 0
    /\ Len(pendingBlobs) < MaxPendingBlobs
    /\ pendingBlobs' = Append(pendingBlobs, PendingBlob(b))
    /\ hist' = [hist EXCEPT ![textsPos].audioDelivered = @ \/ IsAudioFrame(b),
                            ![textsPos].lastFrameTurnEnd = FALSE]
    /\ framesLeft' = framesLeft - 1
    /\ UNCHANGED awaiting
    /\ UNCHANGED frameVars
    /\ UNCHANGED <<drmVars, streamWasCalled, offsetCompensation, lastDurationOffset,
                   textsPos, gen, active, pulling, ws, messageQueue,
                   audioWasReceived, nEnq, yielded>>

\* pendingBlobs without its j-th entry, after that one pushed item: the Blobs
\* delivered before it (those ahead of it in pendingBlobs) are overtaken by it.
WithoutBlob(j, item) ==
    [n \in 1..(Len(pendingBlobs) - 1) |->
        IF n < j THEN Overtake(<<pendingBlobs[n]>>, item)[1]
        ELSE pendingBlobs[n + 1]]

\* A Blob's arrayBuffer() resolves: processBinaryData on its bytes.
BlobResolved(j) ==
    /\ Running /\ j \in 1..Len(pendingBlobs)
    /\ LET item == processBinaryData(pendingBlobs[j].frame)
       IN  /\ messageQueue' = PushedAs(item, IsEvent(item) /\ pendingBlobs[j].overtaken)
           /\ nEnq' = Counted(item)
           /\ hist' = [hist EXCEPT ![textsPos].errorQueued = @ \/ item.kind = "error"]
           /\ pendingBlobs' = WithoutBlob(j, item)
    /\ UNCHANGED awaiting
    /\ UNCHANGED frameVars
    /\ UNCHANGED <<drmVars, streamWasCalled, offsetCompensation, lastDurationOffset,
                   textsPos, gen, active, pulling, ws, audioWasReceived, framesLeft,
                   yielded>>

\* A Blob's arrayBuffer() rejects.
BlobRejected(j) ==
    /\ Running /\ j \in 1..Len(pendingBlobs)
    /\ LET item == ErrorItem("UnexpectedResponse")
       IN  /\ messageQueue' = Pushed(item)
           /\ nEnq' = Counted(item)
           /\ hist' = [hist EXCEPT ![textsPos].errorQueued = TRUE]
           /\ pendingBlobs' = WithoutBlob(j, item)
    /\ awaiting' = resolveMessage(messageQueue')
    /\ UNCHANGED frameVars
    /\ UNCHANGED <<drmVars, streamWasCalled, offsetCompensation, lastDurationOffset,
                   textsPos, gen, active, pulling, ws, audioWasReceived, framesLeft,
                   yielded>>

\* handleMessage, data that is neither a string nor binary (an empty string
\* included: message.data || message is then the event itself).
UnknownData ==
    /\ Connected /\ framesLeft > 0
    /\ LET item == ErrorItem("UnexpectedResponse")
       IN  /\ messageQueue' = Pushed(item)
           /\ nEnq' = Counted(item)
           /\ hist' = [hist EXCEPT ![textsPos] = Noted(@, item, FALSE)]
    /\ framesLeft' = framesLeft - 1
    /\ UNCHANGED awaiting
    /\ UNCHANGED frameVars
    /\ UNCHANGED <<drmVars, streamWasCalled, offsetCompensation, lastDurationOffset,
                   textsPos, gen, active, pulling, ws, audioWasReceived,
                   pendingBlobs, yielded>>

\* An error event after the socket opened.  websocket.onerror was reassigned to
\* the connect promise's onError, whose reject() of the settled promise does
\* nothing: the handler that pushes a WebSocketError is no longer installed.
TransportError ==
    /\ Connected /\ framesLeft > 0
    /\ hist' = [hist EXCEPT ![textsPos].errorEvent = TRUE]
    /\ framesLeft' = framesLeft - 1
    /\ UNCHANGED awaiting
    /\ UNCHANGED frameVars
    /\ UNCHANGED <<drmVars, streamWasCalled, offsetCompensation, lastDurationOffset,
                   textsPos, gen, active, pulling, ws, messageQueue,
                   audioWasReceived, pendingBlobs, nEnq, yielded>>

\* onclose: 'close' is pushed.
TransportClose ==
    /\ Connected
    /\ ws' = "closed"
    /\ messageQueue' = Pushed(CloseItem)
    /\ nEnq' = Counted(CloseItem)
    /\ hist' = [hist EXCEPT ![textsPos].closed = TRUE]
    /\ awaiting' = resolveMessage(messageQueue')
    /\ UNCHANGED frameVars
    /\ UNCHANGED <<drmVars, streamWasCalled, offsetCompensation, lastDurationOffset,
                   textsPos, gen, active, pulling, audioWasReceived, pendingBlobs,
                   framesLeft, yielded>>

\* --- the message loop

\* The generator throws: out of _stream and, through for await, out of stream.
Throws(name, idx) ==
    /\ gen' = [gen EXCEPT ![active] = [status |-> "threw", error |-> name]]
    /\ hist' = [hist EXCEPT ![textsPos].outcome = "threw",
                            ![textsPos].fault = name,
                            ![textsPos].faultIdx = idx]
    /\ pulling' = FALSE
    /\ UNCHANGED <<textsPos, ws, audioWasReceived, pendingBlobs, nEnq, yielded>>

\* One turn of the while loop of _stream with an item in messageQueue, in the
\* next() the consumer awaits (pulling) or in one it calls now.  A loop that
\* is in its await takes nothing until resolveMessage or the timer ends it.
Dequeue ==
    /\ Running
    /\ ~awaiting
    /\ ws \in {"open", "closing", "closed"}
    /\ messageQueue # <<>>
    /\ LET message == shift(messageQueue).item
           rest == shift(messageQueue).rest
       IN  IF message.kind = "close"
           THEN IF onCloseItem(audioWasReceived) = "NoAudioReceived"
                THEN /\ Throws("NoAudioReceived", message.idx)
                     /\ messageQueue' = rest
                ELSE IF textsPos < NumSegments
                \* break; stream() takes the next segment and calls _stream(),
                \* in the same next()
                THEN /\ textsPos' = textsPos + 1
                     /\ ws' = "connecting"
                     /\ messageQueue' = <<>>
                     /\ audioWasReceived' = FALSE
                     /\ pendingBlobs' = <<>>
                     /\ nEnq' = 0
                     /\ hist' = [hist EXCEPT ![textsPos].outcome = "completed",
                                             ![textsPos + 1].created = TRUE,
                                             ![textsPos + 1].outcome = "running"]
                     /\ pulling' = TRUE
                     /\ UNCHANGED <<gen, yielded>>
                \* break; this.texts is exhausted and stream() returns
                ELSE /\ gen' = [gen EXCEPT ![active].status = "completed"]
                     /\ hist' = [hist EXCEPT ![textsPos].outcome = "completed"]
                     /\ pulling' = FALSE
                     /\ messageQueue' = rest
                     /\ UNCHANGED <<textsPos, ws, audioWasReceived, pendingBlobs,
                                    nEnq, yielded>>
           ELSE IF message.kind = "error"
           THEN /\ Throws(message.name, message.idx)
                /\ messageQueue' = rest
           ELSE /\ audioWasReceived' = (audioWasReceived \/ message.kind = "audio")
                /\ yielded' = Append(yielded, message)
                /\ pulling' = FALSE
                /\ messageQueue' = rest
                /\ UNCHANGED <<gen, hist, textsPos, ws, pendingBlobs, nEnq>>
    /\ UNCHANGED awaiting
    /\ UNCHANGED frameVars
    /\ UNCHANGED <<drmVars, streamWasCalled, offsetCompensation, lastDurationOffset,
                   active, framesLeft>>

\* The consumer calls next() after a yield and the loop finds messageQueue
\* empty: it awaits a promise that resolveMessage or the 50 ms timer resolves.
Pull ==
    /\ Running /\ ~pulling
    /\ ws \in {"open", "closing", "closed"}
    /\ messageQueue = <<>>
    /\ pulling' = TRUE
    /\ awaiting' = TRUE
    /\ UNCHANGED frameVars
    /\ UNCHANGED <<drmVars, streamWasCalled, offsetCompensation, lastDurationOffset,
                   textsPos, gen, active, ws, messageQueue, audioWasReceived,
                   pendingBlobs, nEnq, framesLeft, yielded, hist>>

\* An await with no timer: only resolveMessage ends it.
TimeoutNeverFires == FALSE /\ UNCHANGED vars

\* setTimeout(resolve, 50) fires while the loop is in its await: the loop looks
\* at messageQueue again (finding it empty it awaits again, which changes
\* nothing).
Timeout ==
    /\ Running /\ awaiting
    /\ messageQueue # <<>>
    /\ awaiting' = FALSE
    /\ UNCHANGED frameVars
    /\ UNCHANGED <<drmVars, streamWasCalled, offsetCompensation, lastDurationOffset,
                   textsPos, gen, active, pulling, ws, messageQueue,
                   audioWasReceived, pendingBlobs, nEnq, framesLeft, yielded, hist>>

\* ------------------------------- communicate.ts: decoding one frame

\* Characters are their code points, bytes their values; a string is a sequence
\* of characters, a Uint8Array a sequence of bytes.
CR == 13
LF == 10
COLON == 58
SPACE == 32
\* U+FFFD, what TextDecoder puts for bytes that are no UTF-8.
REPLACEMENT == 65533

CRLF == <<CR, LF>>
\* '\r\n\r\n'
HeaderEnd == <<CR, LF, CR, LF>>

Min(a, b) == IF a < b THEN a ELSE b
Max(a, b) == IF a > b THEN a ELSE b

\* TextEncoder.encode, for the characters below U+0100 and U+FFFD.
RECURSIVE encode(_)
encode(str) ==
    IF str = <<>> THEN <<>>
    ELSE LET c == Head(str)
             bytes == IF c < 128 THEN <<c>>
                      ELSE IF c < 256 THEN <<192 + (c \div 64), 128 + (c % 64)>>
                      ELSE <<239, 191, 189>>
         IN  bytes \o encode(Tail(str))

\* TextDecoder('utf-8').decode, for bytes that are ASCII, a two-byte sequence of
\* a character below U+0100 (lead byte 0xC2 or 0xC3), or neither: a byte that
\* starts no such sequence decodes to U+FFFD by itself.
RECURSIVE decode(_)
decode(bytes) ==
    IF bytes = <<>> THEN <<>>
    ELSE LET b == Head(bytes)
         IN  IF b < 128 THEN <<b>> \o decode(Tail(bytes))
             ELSE IF /\ b \in {194, 195}
                     /\ Len(bytes) >= 2
                     /\ bytes[2] \in 128..191
             THEN <<(b - 192) * 64 + (bytes[2] - 128)>> \o decode(Tail(Tail(bytes)))
             ELSE <<REPLACEMENT>> \o decode(Tail(bytes))

\* Uint8Array.prototype.slice(start, end): both clamped to the array.
slice(message, start, end) ==
    SubSeq(message, Min(Max(start, 0), Len(message)) + 1,
                    Min(Max(end, 0), Len(message)))

\* slice(start): to the end of the array.
sliceFrom(message, start) == slice(message, start, Len(message))

\* String.prototype.substring(start, end): both clamped to the string.
substring(str, start, end) ==
    SubSeq(str, Min(Max(start, 0), Len(str)) + 1, Min(Max(end, 0), Len(str)))

\* Whether pattern occurs in str at index i (from 0).
OccursAt(str, pattern, i) ==
    /\ i + Len(pattern) <= Len(str)
    /\ SubSeq(str, i + 1, i + Len(pattern)) = pattern

\* String.prototype.indexOf(pattern): the first index, or -1.
indexOf(str, pattern) ==
    LET found == {i \in 0..Len(str) : OccursAt(str, pattern, i)}
    IN  IF found = {} THEN -1
        ELSE CHOOSE i \in found : \A j \in found : i <= j

\* String.prototype.split(separator): every piece, in order.
RECURSIVE split(_, _)
split(str, separator) ==
    LET i == indexOf(str, separator)
    IN  IF i = -1 THEN <<str>>
        ELSE <<SubSeq(str, 1, i)>>
                 \o split(SubSeq(str, i + Len(separator) + 1, Len(str)), separator)

\* split(separator, limit): the first limit pieces; what follows them is dropped.
splitLimit(str, separator, limit) ==
    LET pieces == split(str, separator)
    IN  SubSeq(pieces, 1, Min(limit, Len(pieces)))

\* String.prototype.trim(), for the white space that occurs here.
IsSpace(c) == c \in {SPACE, CR, LF}
RECURSIVE trimStart(_)
trimStart(str) ==
    IF str # <<>> /\ IsSpace(Head(str)) THEN trimStart(Tail(str)) ELSE str
RECURSIVE trimEnd(_)
trimEnd(str) ==
    IF str # <<>> /\ IsSpace(str[Len(str)])
    THEN trimEnd(SubSeq(str, 1, Len(str) - 1))
    ELSE str
trim(str) == trimEnd(trimStart(str))

\* headers: the set of its properties.  headers[key] = value.
NoHeaders == {}
setHeader(headers, key, value) ==
    {h \in headers : h.key # key} \cup {[key |-> key, value |-> value]}

\* How many pieces line.split(':', 2) keeps.
HeaderSplitLimit == 2

\* const [key, value] = line.split(':', 2); if (key && value) headers[key] = value.trim()
headerLine(headers, line) ==
    LET parts == splitLimit(line, <<COLON>>, HeaderSplitLimit)
    IN  IF Len(parts) >= 2 /\ parts[1] # <<>> /\ parts[2] # <<>>
        THEN setHeader(headers, parts[1], trim(parts[2]))
        ELSE headers

\* for (const line of headerLines) ...
RECURSIVE headerLines(_, _)
headerLines(headers, lines) ==
    IF lines = <<>> THEN headers
    ELSE headerLines(headerLine(headers, Head(lines)), Tail(lines))

parseHeaders(headerString) == headerLines(NoHeaders, split(headerString, CRLF))

\* getHeadersAndDataFromText(message)
getHeadersAndDataFromText(message) ==
    LET messageString == decode(message)
        headerEndIndex == indexOf(messageString, HeaderEnd)
        headers == IF headerEndIndex # -1
                   THEN parseHeaders(substring(messageString, 0, headerEndIndex))
                   ELSE NoHeaders
        headerByteLength ==
            Len(encode(substring(messageString, 0, headerEndIndex + 4)))
    IN  [threw |-> FALSE, headers |-> headers,
         data |-> sliceFrom(message, headerByteLength)]

\* (message[0] << 8) | message[1]
headerLengthOf(message) == message[1] * 256 + message[2]

\* A check of the declared length that does not look at the message's length.
headerFitsUnchecked(headerLength, length) == headerLength > 0

\* headerLength > 0 && headerLength + 2 <= message.length
headerFits(headerLength, length) == headerLength > 0 /\ headerLength + 2 <= length

\* getHeadersAndDataFromBinary(message)
getHeadersAndDataFromBinary(message) ==
    IF Len(message) < 2
    THEN [threw |-> TRUE, headers |-> NoHeaders, data |-> <<>>]
    ELSE LET headerLength == headerLengthOf(message)
             headers == IF headerFits(headerLength, Len(message))
                        THEN parseHeaders(decode(slice(message, 2, headerLength + 2)))
                        ELSE NoHeaders
         IN  [threw |-> FALSE, headers |-> headers,
              data |-> sliceFrom(message, headerLength + 2)]

\* --- one frame at a time

\* Tokens the header part of a frame is made of, in the frames tried.
MaxTokens == 4
\* The low byte of the header length a binary frame declares: 0..MaxDeclared.
MaxDeclared == 6
\* Entries in the Metadata array of an audio.metadata frame.
MaxEntries == 2
\* state.offsetCompensation and state.lastDurationOffset when the frame arrives.
MaxComp == 2

\* 'k', ':', ' ', U+00E9 (two bytes in UTF-8), and a line break.
HeadTokens == {<<107>>, <<COLON>>, <<SPACE>>, <<233>>, CRLF}

\* The strings of up to n tokens.
RECURSIVE StringsOf(_)
StringsOf(n) ==
    IF n = 0 THEN {<<>>}
    ELSE LET shorter == StringsOf(n - 1)
         IN  shorter \cup {str \o t : str \in shorter, t \in HeadTokens}

\* What follows the header part: nothing, 'x', U+00E9 'x'.
Tails == {<<>>, <<120>>, <<233, 120>>}

\* The strings the frames are made of.
Strings == StringsOf(MaxTokens)

\* The Metadata arrays of up to n entries.
RECURSIVE EntriesUpTo(_)
EntriesUpTo(n) ==
    IF n = 0 THEN {<<>>}
    ELSE LET shorter == EntriesUpTo(n - 1)
         IN  shorter \cup {Append(es, e) : es \in shorter, e \in Entries}

AllMetadataBodies == {BadJson} \cup {Body(es) : es \in EntriesUpTo(MaxEntries)}

\* Every binary frame as processBinaryData reads it ("": no such header).
AllBinaryFrames ==
    {BinaryFrame(short, path, ctype, hasData) :
        short \in BOOLEAN, path \in {"audio", "other", ""},
        ctype \in {"audio/mpeg", "other", ""}, hasData \in BOOLEAN}

NoInput ==
    [kind |-> "none", message |-> <<>>, body |-> BadJson, comp |-> 0, last |-> 0,
     bin |-> BinaryFrame(TRUE, "", "", FALSE)]

\* handleMessage line 289: BufferUtils.from(data) of the string received.
TextInput(str) == [NoInput EXCEPT !.kind = "text", !.message = encode(str)]
BinaryInput(message) == [NoInput EXCEPT !.kind = "binary", !.message = message]
MetadataInput(body, comp, last) ==
    [NoInput EXCEPT !.kind = "audio.metadata", !.body = body, !.comp = comp,
                    !.last = last]
AudioInput(b) == [NoInput EXCEPT !.kind = "audio", !.bin = b]

NoOutput ==
    [done |-> FALSE, threw |-> FALSE, headers |-> NoHeaders, data |-> <<>>,
     items |-> <<>>, last |-> 0]

NoFrame == input = NoInput /\ output = NoOutput

\* A text frame arrives: a string, with or without '\r\n\r\n' in it.
TextFrameArrives ==
    \E head \in Strings, sep \in {<<>>, HeaderEnd}, tail \in Tails :
        input = TextInput(head \o sep \o tail)

\* A binary frame arrives: fewer than two bytes, or two bytes of declared header
\* length and the bytes that follow.
BinaryFrameArrives ==
    \/ \E message \in {<<>>, <<0>>} : input = BinaryInput(message)
    \/ \E high \in {0, 1}, low \in 0..MaxDeclared, str \in Strings :
           input = BinaryInput(<<high, low>> \o encode(str))

\* An audio.metadata frame arrives: state.offsetCompensation never exceeds
\* state.lastDurationOffset, of which it is a copy taken earlier.
MetadataFrameArrives ==
    \E body \in AllMetadataBodies, comp \in 0..MaxComp, last \in 0..MaxComp :
        /\ comp <= last
        /\ input = MetadataInput(body, comp, last)

\* A binary frame arrives at processBinaryData.
AudioFrameArrives == \E b \in AllBinaryFrames : input = AudioInput(b)

\* One frame arrives at handleMessage.
InitFrames ==
    /\ InitStream /\ InitVoices
    /\ \/ TextFrameArrives
       \/ BinaryFrameArrives
       \/ MetadataFrameArrives
       \/ AudioFrameArrives
    /\ output = NoOutput

\* getHeadersAndDataFromText on the frame.
DecodeText ==
    /\ input.kind = "text" /\ ~output.done
    /\ LET r == getHeadersAndDataFromText(input.message)
       IN  output' = [NoOutput EXCEPT !.done = TRUE, !.threw = r.threw,
                                      !.headers = r.headers, !.data = r.data]
    /\ UNCHANGED <<input, drmVars, streamVars>>

\* getHeadersAndDataFromBinary on the frame.
DecodeBinary ==
    /\ input.kind = "binary" /\ ~output.done
    /\ LET r == getHeadersAndDataFromBinary(input.message)
       IN  output' = [NoOutput EXCEPT !.done = TRUE, !.threw = r.threw,
                                      !.headers = r.headers, !.data = r.data]
    /\ UNCHANGED <<input, drmVars, streamVars>>

\* What was pushed on messageQueue.
PushedItems(item) == IF item.kind = "none" THEN <<>> ELSE <<item>>

\* The audio.metadata branch of handleMessage on the frame's body.
HandleMetadata ==
    /\ input.kind = "audio.metadata" /\ ~output.done
    /\ LET r == onAudioMetadata(input.body, input.comp, input.last)
       IN  output' = [NoOutput EXCEPT !.done = TRUE, !.items = PushedItems(r.item),
                                      !.last = r.last]
    /\ UNCHANGED <<input, drmVars, streamVars>>

\* processBinaryData on the frame; it does not touch this.state.
HandleBinary ==
    /\ input.kind = "audio" /\ ~output.done
    /\ output' = [NoOutput EXCEPT !.done = TRUE,
                                  !.items = PushedItems(processBinaryData(input.bin)),
                                  !.last = input.last]
    /\ UNCHANGED <<input, drmVars, streamVars>>

\* --- the specifications

Init == InitStream /\ InitVoices /\ NoFrame

Next ==
    \/ \E i \in Invocations : Invoke(i) \/ FirstNext(i)
    \/ ConsumerReturn
    \/ Open
    \/ ConnectError
    \/ \E body \in MetadataBodies : TextMetadata(body)
    \/ TextTurnEnd
    \/ \E path \in {"response", "turn.start"} : TextIgnored(path)
    \/ TextUnknownPath
    \/ \E b \in BinaryFrames : Binary(b) \/ BinaryBlob(b)
    \/ \E j \in 1..MaxPendingBlobs : BlobResolved(j) \/ BlobRejected(j)
    \/ UnknownData
    \/ TransportError
    \/ TransportClose
    \/ Dequeue
    \/ Pull
    \/ Timeout

\* One Communicate instance, its consumer and its transport.
Spec == Init /\ [][Next]_vars

NextVoices ==
    \/ Tick
    \/ \E c \in Calls : CallListVoices(c)
    \/ \E c \in Calls, r \in Responses : FirstResponse(c, r) \/ SecondResponse(c, r)

\* The DRM state of the process and the listVoices calls that use it.
SpecVoices == Init /\ [][NextVoices]_vars

NextFrames ==
    \/ DecodeText
    \/ DecodeBinary
    \/ HandleMetadata
    \/ HandleBinary

\* handleMessage's functions, each on one frame.
SpecFrames == InitFrames /\ [][NextFrames]_vars

InitLive == InitStreamWith(MaxLiveFrames) /\ InitVoices /\ NoFrame

\* The consumer keeps pulling: it never abandons the iteration.
NextLive ==
    \/ \E i \in Invocations : Invoke(i) \/ FirstNext(i)
    \/ Open
    \/ ConnectError
    \/ \E body \in MetadataBodies : TextMetadata(body)
    \/ TextTurnEnd
    \/ \E path \in {"response", "turn.start"} : TextIgnored(path)
    \/ TextUnknownPath
    \/ \E b \in BinaryFrames : Binary(b) \/ BinaryBlob(b)
    \/ \E j \in 1..MaxPendingBlobs : BlobResolved(j) \/ BlobRejected(j)
    \/ UnknownData
    \/ TransportError
    \/ TransportClose
    \/ Dequeue
    \/ Pull
    \/ Timeout

\* The message loop runs whenever it has an item to take and is not in its
\* await (the consumer calls next() after every yield), and the 50 ms timer of
\* an await fires.  The transport is under no obligation.
SpecLive == InitLive /\ [][NextLive]_vars /\ WF_vars(Dequeue) /\ WF_vars(Timeout)

\* ------------------------------------------------------------ the claims

\* The events of segment k among those the caller received, in order.
YieldedOf(k) == SelectSeq(yielded, LAMBDA e : e.seg = k)

\* The sub-session of segment k is over, and not because the caller left.
Ended(k) == hist[k].outcome \in {"completed", "threw"}

\* C1: a second invocation of stream() raises an error and yields no events when
\* it is iterated, whatever became of the first invocation.
C1_SecondInvocationRaises ==
    \A i \in Invocations :
        (i >= 2 /\ gen[i].status \notin {"none", "suspendedStart"}) =>
            (gen[i].status = "threw" /\ gen[i].error = "MisuseError" /\ active # i)

\* C2, as claimed: a sub-session that receives turn.end before any binary audio
\* frame was delivered raises NoAudioReceived and yields no audio event.
C2_TurnEndBeforeAudioRaisesNoAudio ==
    \A k \in Segments :
        hist[k].turnEndBeforeAudio =>
            /\ \A n \in 1..Len(yielded) :
                   yielded[n].seg = k => yielded[n].kind # "audio"
            /\ Ended(k) => hist[k].fault = "NoAudioReceived"

\* C2, amended: a sub-session that receives turn.end before any binary audio
\* frame was delivered, and in which none is delivered afterwards either, yields
\* no audio event and ends with a fault: NoAudioReceived, unless a fault was
\* queued in that sub-session, which may then be the one raised.
C2_NoAudioDeliveredRaisesNoAudio ==
    \A k \in Segments :
        (hist[k].turnEndBeforeAudio /\ ~hist[k].audioDelivered) =>
            /\ \A n \in 1..Len(yielded) :
                   yielded[n].seg = k => yielded[n].kind # "audio"
            /\ Ended(k) =>
                   /\ hist[k].outcome = "threw"
                   /\ ~hist[k].errorQueued => hist[k].fault = "NoAudioReceived"

\* C2, the case: turn.end with no audio frame at all, and NoAudioReceived raised.
C2_Witness ==
    \E k \in Segments :
        /\ hist[k].turnEndBeforeAudio /\ ~hist[k].audioDelivered
        /\ hist[k].outcome = "threw" /\ hist[k].fault = "NoAudioReceived"

C4_YieldedOffsetsMonotone ==
    (\A k \in Segments : hist[k].rawOrdered) =>
        \A m, n \in 1..Len(yielded) :
            (m < n /\ yielded[m].kind = "WordBoundary"
                   /\ yielded[n].kind = "WordBoundary") =>
                yielded[m].offset <= yielded[n].offset

C6_OpenedSocketsClosed ==
    \A k \in Segments :
        (hist[k].opened /\ hist[k].outcome \in {"completed", "threw", "abandoned"}) =>
            hist[k].closeRequested \/ hist[k].closed

\* C7: listVoices sends at most two requests per call and corrects the skew at
\* most once; the second request follows a first that was refused with 403 and
\* whose date header was there and was applied to the skew; its token is the one
\* of the corrected skew; whatever the second request gives is the call's result,
\* every failure (another 403 too) as a FetchError with nothing further done.
C7_AtMostOneRetry ==
    \A c \in Calls :
        /\ call[c].requests <= 2
        /\ call[c].adjusts <= 1
        /\ call[c].requests = 2 =>
               /\ call[c].status1 = 403
               /\ call[c].adjusts = 1
               /\ call[c].date1.kind # "absent"
               /\ call[c].freshToken
        /\ (call[c].pc = "done" /\ call[c].requests = 2) =>
               call[c].result = (IF call[c].status2 = 200 THEN "ok" ELSE "FetchError")
        /\ call[c].pc \in {"idle", "req1", "req2", "done"}
        /\ call[c].pc = "req2" => call[c].requests = 2

\* C7, the case: a call whose retry was refused with 403 too, and is over.
C7_Witness ==
    \E c \in Calls :
        /\ call[c].pc = "done"
        /\ call[c].requests = 2
        /\ call[c].status2 = 403
        /\ call[c].result = "FetchError"

\* C8: after handleClientResponseError has succeeded with server date S, the
\* corrected timestamp at the same local instant equals S, whatever the skew
\* was before; applying S again at that instant leaves the skew as it is.
C8_SkewMatchesServerDate ==
    (lastAdj.called /\ ~lastAdj.threw /\ lastAdj.date.kind = "date") =>
        /\ NumEq(getUnixTimestamp(lastAdj.now, clockSkewSeconds), Num(lastAdj.date.ms))
        /\ NumEq(handleClientResponseError(lastAdj.date, lastAdj.now, clockSkewSeconds).skew,
                 clockSkewSeconds)

\* C9: with the date header absent or not a date, the skew adjustment fails
\* with an error and the skew is what it was, and a finite number.
C9_BadDateLeavesSkew ==
    (lastAdj.called /\ lastAdj.date.kind \in {"absent", "unparseable"}) =>
        /\ lastAdj.threw
        /\ ~lastAdj.changed
        /\ IsFinite(clockSkewSeconds)

\* C10: with the skew as it is, two local times whose corrected timestamps are
\* in the same 300-second bucket hash the same string, two in adjacent buckets
\* hash different strings, and the hashed ticks are a multiple of 300 seconds.
C10_TokenPerBucket ==
    \A t1, t2 \in ClockValues :
        LET h1 == strToHash(t1, clockSkewSeconds)
            h2 == strToHash(t2, clockSkewSeconds)
            b1 == getUnixTimestamp(t1, clockSkewSeconds).v \div BucketMs
            b2 == getUnixTimestamp(t2, clockSkewSeconds).v \div BucketMs
        IN  /\ ~h1.nan /\ h1.r = 0
            /\ b1 = b2 => h1 = h2
            /\ b1 + 1 = b2 => h1 # h2

\* C11: the caller receives the events in the order in which the transport
\* delivered their frames: no event is yielded behind the event of a frame that
\* was delivered after its own, and every event of segment k comes before any
\* event of segment k+1.
C11_YieldedInArrivalOrder ==
    /\ \A n \in 1..Len(yielded) : ~yielded[n].late
    /\ \A m, n \in 1..Len(yielded) : m < n => yielded[m].seg <= yielded[n].seg

\* C12: decoding a text frame with no '\r\n\r\n' in it does not fail, gives no
\* headers and gives the whole message as the payload; with the separator in it,
\* the payload is the bytes that follow the first separator.
C12_TextDecodePayload ==
    (input.kind = "text" /\ output.done) =>
        LET at == indexOf(input.message, HeaderEnd)
        IN  /\ ~output.threw
            /\ at = -1 => (output.headers = NoHeaders /\ output.data = input.message)
            /\ at # -1 =>
                   output.data = SubSeq(input.message, at + 5, Len(input.message))

\* C13: decoding a binary frame of two bytes or more, declaring H bytes of
\* headers, does not fail; if H + 2 <= length the headers are those of the bytes
\* [2, H+2) alone (a line with no key or no value after a colon gives none) and
\* the payload is the bytes from H+2 on; if H + 2 > length there are no headers.
\* A frame of fewer than two bytes is a fault.
C13_BinaryDecodeInBounds ==
    (input.kind = "binary" /\ output.done) =>
        LET m == input.message
            n == Len(m)
        IN  /\ n < 2 => output.threw
            /\ n >= 2 =>
                   LET H == m[1] * 256 + m[2]
                       headerBytes == SubSeq(m, 3, H + 2)
                   IN  /\ ~output.threw
                       /\ H + 2 <= n =>
                              /\ output.headers = parseHeaders(decode(headerBytes))
                              /\ output.data = SubSeq(m, H + 3, n)
                              /\ (\A i \in 1..Len(headerBytes) : headerBytes[i] # COLON)
                                     => output.headers = NoHeaders
                              /\ \A h \in output.headers : h.key # <<>>
                       /\ H + 2 > n => output.headers = NoHeaders

\* C13, the case: a frame whose declared headers fit, with a header and a payload.
C13_Witness ==
    /\ input.kind = "binary" /\ output.done /\ ~output.threw
    /\ Len(input.message) > input.message[1] * 256 + input.message[2] + 2
    /\ output.headers # NoHeaders
    /\ output.data # <<>>
    /\ Len(output.data) < Len(input.message) - 2

\* The WordBoundary entries of a Metadata array, in order.
WordBoundariesOf(entries) == SelectSeq(entries, LAMBDA e : e.Type = "WordBoundary")

\* C14: an audio.metadata frame whose entries are WordBoundary and SessionEnd
\* entries, at least one of them a WordBoundary, produces one WordBoundary event
\* per WordBoundary entry, each with offset = raw offset + offsetCompensation,
\* and leaves lastDurationOffset = offset + duration of the last of them.
C14_OneEventPerWordBoundary ==
    (/\ input.kind = "audio.metadata" /\ output.done
     /\ input.body.json
     /\ \A n \in 1..Len(input.body.Metadata) :
            input.body.Metadata[n].Type \in {"WordBoundary", "SessionEnd"}
     /\ WordBoundariesOf(input.body.Metadata) # <<>>) =>
        LET wbs == WordBoundariesOf(input.body.Metadata)
            events == SelectSeq(output.items, LAMBDA i : i.kind = "WordBoundary")
        IN  /\ Len(events) = Len(wbs)
            /\ \A n \in 1..Len(wbs) : events[n].offset = wbs[n].Offset + input.comp
            /\ output.last =
                   wbs[Len(wbs)].Offset + input.comp + wbs[Len(wbs)].Duration

\* C15: the 'no WordBoundary found' fault is raised for an audio.metadata frame
\* only when its Metadata array is not empty and holds SessionEnd entries alone;
\* an empty array raises no fault; an entry that is neither a WordBoundary nor a
\* SessionEnd, met before any WordBoundary, raises the unknown-type fault.
C15_NoWordBoundaryFault ==
    (input.kind = "audio.metadata" /\ output.done /\ input.body.json) =>
        LET entries == input.body.Metadata
            faults == SelectSeq(output.items, LAMBDA i : i.kind = "error")
            exhausted ==
                /\ entries # <<>>
                /\ \A n \in 1..Len(entries) : entries[n].Type = "SessionEnd"
            unknownFirst ==
                \E n \in 1..Len(entries) :
                    /\ entries[n].Type \notin {"WordBoundary", "SessionEnd"}
                    /\ \A m \in 1..(n - 1) : entries[m].Type = "SessionEnd"
        IN  /\ (\E n \in 1..Len(faults) : faults[n].name = "UnexpectedResponse")
                   => exhausted
            /\ entries = <<>> => faults = <<>>
            /\ unknownFirst =>
                   (Len(faults) = 1 /\ faults[1].name = "UnknownResponse")

\* C16: a sub-session in which the transport reported an error after it opened
\* does not end normally: it ends with a fault, and that fault is WebSocketError
\* unless another fault was queued in the sub-session.
C16_TransportErrorSurfaces ==
    \A k \in Segments :
        (hist[k].errorEvent /\ Ended(k)) =>
            /\ hist[k].outcome = "threw"
            /\ ~hist[k].errorQueued => hist[k].fault = "WebSocketError"

\* C17: listVoices calls in flight together, with every 403 response that has a
\* date header carrying a date: whatever the order of their responses, after
\* each adjustment the corrected clock at that instant is the server date of the
\* response applied last, the skew is a finite number, and it is 0 as long as no
\* call has adjusted it.
C17_SkewAdjustmentsAtomic ==
    (\A c \in Calls : call[c].date1.kind # "unparseable") =>
        /\ IsFinite(clockSkewSeconds)
        /\ (\A c \in Calls : call[c].adjusts = 0) => clockSkewSeconds = Num(0)
        /\ (lastAdj.called /\ ~lastAdj.threw) =>
               NumEq(getUnixTimestamp(lastAdj.now, clockSkewSeconds),
                     Num(lastAdj.date.ms))

\* C17, the case: two calls in flight, each having adjusted the skew from its
\* own 403 response, with different server dates, the second on top of the first.
C17_Witness ==
    \E c, d \in Calls :
        /\ c # d
        /\ call[c].pc = "req2" /\ call[d].pc = "req2"
        /\ call[c].date1.kind = "date" /\ call[d].date1.kind = "date"
        /\ call[c].date1 # call[d].date1
        /\ lastAdj.called /\ ~lastAdj.threw /\ lastAdj.now > 0
        /\ clockSkewSeconds # Num(0)

\* A header line split once, on its first colon: the key before it, and the
\* whole remainder of the line after it, trimmed, as the value.
firstColonLine(headers, line) ==
    LET i == indexOf(line, <<COLON>>)
    IN  IF i > 0 /\ i + 1 < Len(line)
        THEN setHeader(headers, SubSeq(line, 1, i), trim(SubSeq(line, i + 2, Len(line))))
        ELSE headers

RECURSIVE firstColonLines(_, _)
firstColonLines(headers, lines) ==
    IF lines = <<>> THEN headers
    ELSE firstColonLines(firstColonLine(headers, Head(lines)), Tail(lines))

\* The header part of a decoded frame, as a string; <<>> when headers are not
\* looked for (no separator; a declared length of 0 or beyond the frame).
HeaderStringOf(in) ==
    IF in.kind = "text"
    THEN LET str == decode(in.message)
             at == indexOf(str, HeaderEnd)
         IN  IF at = -1 THEN <<>> ELSE SubSeq(str, 1, at)
    ELSE LET m == in.message
             H == m[1] * 256 + m[2]
         IN  IF H > 0 /\ H + 2 <= Len(m) THEN decode(SubSeq(m, 3, H + 2)) ELSE <<>>

\* C18: in the text and in the binary decode, every header line is split once
\* on its first colon: the value is the whole remainder of the line, trimmed,
\* with the colons in it.
C18_ValueIsRestOfLine ==
    (/\ input.kind \in {"text", "binary"} /\ output.done /\ ~output.threw) =>
        output.headers =
            firstColonLines(NoHeaders, split(HeaderStringOf(input), CRLF))

\* C19: a binary frame is exactly one of: a fault when its Path is not audio;
\* an audio event when its Content-Type is audio/mpeg and it has data; a fault
\* when it is audio/mpeg without data; a fault when it is not audio/mpeg and has
\* data; nothing at all (no item pushed, the state as it was) when it is not
\* audio/mpeg and has no data.  A frame of fewer than two bytes is a fault.
C19_BinaryFrameClassified ==
    (input.kind = "audio" /\ output.done) =>
        LET b == input.bin
            isFault == /\ Len(output.items) = 1
                       /\ output.items[1].kind = "error"
                       /\ output.items[1].name = "UnexpectedResponse"
            isAudio == Len(output.items) = 1 /\ output.items[1].kind = "audio"
            isIgnored == output.items = <<>> /\ output.last = input.last
            mpeg == b.ContentType = "audio/mpeg"
        IN  /\ b.short => isFault
            /\ (~b.short /\ b.Path # "audio") => isFault
            /\ (~b.short /\ b.Path = "audio" /\ mpeg /\ b.hasData) => isAudio
            /\ (~b.short /\ b.Path = "audio" /\ mpeg /\ ~b.hasData) => isFault
            /\ (~b.short /\ b.Path = "audio" /\ ~mpeg /\ b.hasData) => isFault
            /\ (~b.short /\ b.Path = "audio" /\ ~mpeg /\ ~b.hasData) => isIgnored

\* C19, the case: an audio frame of another Content-Type with no data, ignored.
C19_Witness ==
    /\ input.kind = "audio" /\ output.done
    /\ ~input.bin.short /\ input.bin.Path = "audio"
    /\ input.bin.ContentType = "other" /\ ~input.bin.hasData
    /\ output.items = <<>>

\* C20: the segments are processed one after the other, in order: the
\* sub-session of segment k+1 is created only when the message loop has taken
\* the close of segment k's, whose socket has closed; the sub-sessions created
\* are the segments up to textsPos, and only the last of them can be running;
\* a stream() that completes has run one sub-session for every segment.
C20_SegmentsSequential ==
    /\ \A k \in Segments : hist[k].created <=> k <= textsPos
    /\ \A k \in Segments :
           (hist[k].created /\ k > 1) =>
               (hist[k - 1].outcome = "completed" /\ hist[k - 1].closed)
    /\ \A k \in Segments : hist[k].outcome = "running" => k = textsPos
    /\ \A k \in Segments : hist[k].opened => hist[k].created
    /\ \A i \in Invocations :
           gen[i].status = "completed" =>
               \A k \in Segments : hist[k].opened /\ hist[k].outcome = "completed"
    /\ \A i, j \in Invocations :
           (gen[i].status \in {"running", "completed", "returned"}
                /\ gen[j].status \in {"running", "completed", "returned"}) => i = j

\* C20, the case: a stream() of several segments that completed.
C20_Witness ==
    /\ NumSegments > 1
    /\ active # 0 /\ gen[active].status = "completed"
    /\ hist[NumSegments].opened /\ hist[1].outcome = "completed"

\* C21: a sub-session completes normally only by way of a turn.end: a segment
\* whose sub-session ended without a fault had a turn.end frame handled before
\* the transport reported its close.
C21_CompletedOnlyAfterTurnEnd ==
    \A k \in Segments : hist[k].outcome = "completed" => hist[k].turnEnd

\* Item n of segment k is an event in the messageQueue of its running
\* sub-session, with no 'close' before it.
QueuedBeforeClose(k, n) ==
    /\ textsPos = k /\ hist[k].outcome = "running"
    /\ \E i \in DOMAIN messageQueue :
           /\ messageQueue[i].idx = n /\ IsEvent(messageQueue[i])
           /\ \A j \in 1..(i - 1) : messageQueue[j].kind # "close"

\* Item n of segment k was yielded.
YieldedItem(k, n) == \E i \in DOMAIN yielded : yielded[i].seg = k /\ yielded[i].idx = n

\* C22: with a consumer that keeps pulling, every event queued ahead of the
\* close notification is eventually yielded unless the sub-session raises a
\* fault, and a sub-session whose transport has delivered its close
\* notification eventually terminates, normally or with a fault.
C22_QueuedEventsDelivered ==
    /\ \A k \in Segments, n \in 1..(MaxLiveFrames + 1) :
           QueuedBeforeClose(k, n) ~> (YieldedItem(k, n) \/ hist[k].outcome = "threw")
    /\ \A k \in Segments : hist[k].closed ~> Ended(k)

\* C22, the case: after a yield the loop is in its await again, and an event
\* has been pushed without a wake-up (the audio of a Blob): it stands in
\* messageQueue ahead of any 'close' while the loop still waits.
C22_Witness ==
    /\ awaiting /\ ws = "open"
    /\ yielded # <<>>
    /\ \E n \in 1..(MaxLiveFrames + 1) : QueuedBeforeClose(1, n)

\* C23: a sub-session that has ended, to which the transport delivered a
\* well-formed audio/mpeg frame with data (as bytes or as a Blob) before its
\* close notification, and in which no fault was queued, ended normally (not
\* with NoAudioReceived) and yielded audio to the caller.
C23_DeliveredAudioIsYielded ==
    \A k \in Segments :
        (Ended(k) /\ hist[k].audioDelivered /\ ~hist[k].errorQueued) =>
            /\ hist[k].outcome = "completed"
            /\ \E i \in DOMAIN yielded : yielded[i].seg = k /\ yielded[i].kind = "audio"

\* C24: lastDurationOffset >= offsetCompensation >= 0 in every state;
\* offsetCompensation never decreases and changes only in the handling of a
\* turn.end frame; lastDurationOffset changes only in the handling of an
\* audio.metadata frame that parseMetadata turns into a WordBoundary chunk.
C24_OffsetStateDiscipline ==
    /\ [](lastDurationOffset >= offsetCompensation /\ offsetCompensation >= 0)
    /\ [][offsetCompensation' >= offsetCompensation]_vars
    /\ [][offsetCompensation' # offsetCompensation => TextTurnEnd]_vars
    /\ [][lastDurationOffset' # lastDurationOffset =>
              \E body \in MetadataBodies :
                  /\ TextMetadata(body)
                  /\ parseMetadata(body, offsetCompensation).kind = "WordBoundary"]_vars

\* C24, the case: a turn.end has moved the compensation, and a word boundary
\* handled after it has moved lastDurationOffset beyond it.
C24_Witness ==
    /\ offsetCompensation > 0
    /\ lastDurationOffset > offsetCompensation
    /\ \E i \in DOMAIN yielded :
           yielded[i].kind = "WordBoundary" /\ yielded[i].offset > yielded[i].raw

====
